---- MODULE Spec2Model ----
(***************************************************************************)
(* Model of the eBay REST client (package ebay, src/ebay.go): client       *)
(* construction, Client.NewRequest, Client.Do, CheckResponse and IsError.  *)
(*                                                                         *)
(* Go strings are modelled as sequences of one-character strings, so that  *)
(* prefix/suffix tests, URL parsing and URL reference resolution are       *)
(* computed the way the code (and the net/url functions it calls) computes *)
(* them, escaping and fragments included.  A byte is a one-character       *)
(* string; a byte that is not printable ASCII is the string \xHH.          *)
(* Of net/url the model follows the code before it validates the address  *)
(* inside an IP literal: "[" ... "]" may hold any host bytes.              *)
(***************************************************************************)
EXTENDS Integers, Sequences, FiniteSets, TLC

\* ------------------------------------------------------------------ bounds
\* Longest relative path handed to NewRequest.
MaxPathLen == 3
\* Longest option list handed to NewRequest.
MaxOpts == 2
\* Longest error-entry list carried by a response body.
MaxErrors == 2
\* Largest eBay error code carried by a response body or queried (codes 0..MaxCode).
MaxCode == 2
\* Longest list of codes handed to IsError.
MaxCodes == 2

\* ----------------------------------------------------------- string helpers
\* strings.HasPrefix
HasPrefix(s, p) ==
  /\ Len(p) <= Len(s)
  /\ SubSeq(s, 1, Len(p)) = p

\* strings.HasSuffix
HasSuffix(s, p) ==
  /\ Len(p) <= Len(s)
  /\ SubSeq(s, Len(s) - Len(p) + 1, Len(s)) = p

\* strings.Index for a one-byte separator, 1-based; 0 when absent (Go: -1).
Index(s, c) ==
  IF \E i \in 1..Len(s) : s[i] = c
  THEN CHOOSE i \in 1..Len(s) : s[i] = c /\ \A j \in 1..(i - 1) : s[j] # c
  ELSE 0

\* strings.LastIndex for a one-byte separator, 1-based; 0 when absent (Go: -1).
LastIndex(s, c) ==
  IF \E i \in 1..Len(s) : s[i] = c
  THEN CHOOSE i \in 1..Len(s) : s[i] = c /\ \A j \in (i + 1)..Len(s) : s[j] # c
  ELSE 0

\* strings.Count for a one-byte separator.
Count(s, c) == Cardinality({i \in 1..Len(s) : s[i] = c})

\* strings.Cut, given the 1-based index i of the separator (0: absent).
CutAt(s, i) ==
  IF i = 0 THEN <<s, <<>>, FALSE>>
  ELSE <<SubSeq(s, 1, i - 1), SubSeq(s, i + 1, Len(s)), TRUE>>

\* strings.Cut for a one-byte separator: <<before, after, found>>.
Cut(s, c) == CutAt(s, Index(s, c))

\* s[i:] with a 0-based Go offset i.
From(s, i) == SubSeq(s, i + 1, Len(s))

\* s[:i] with a 0-based Go offset i.
Upto(s, i) == SubSeq(s, 1, i)

\* The lower-case letters, in order.
Lower ==
  <<"a", "b", "c", "d", "e", "f", "g", "h", "i", "j", "k", "l", "m", "n",
    "o", "p", "q", "r", "s", "t", "u", "v", "w", "x", "y", "z">>

\* The upper-case letters, in order.
Upper ==
  <<"A", "B", "C", "D", "E", "F", "G", "H", "I", "J", "K", "L", "M", "N",
    "O", "P", "Q", "R", "S", "T", "U", "V", "W", "X", "Y", "Z">>

LowerLetters == {Lower[i] : i \in 1..Len(Lower)}

Letters == LowerLetters \cup {Upper[i] : i \in 1..Len(Upper)}

Digits == {"0", "1", "2", "3", "4", "5", "6", "7", "8", "9"}

\* strings.ToLower on one byte.
LowerByte(c) ==
  IF \E i \in 1..Len(Upper) : Upper[i] = c
  THEN Lower[CHOOSE i \in 1..Len(Upper) : Upper[i] = c]
  ELSE c

\* strings.ToLower
ToLower(s) == [i \in 1..Len(s) |-> LowerByte(s[i])]

\* All strings over alphabet A of length at most n.
StringsUpTo(A, n) == UNION {[1..k -> A] : k \in 0..n}

\* The 256 byte values, in order: a printable ASCII byte is the string of
\* that character, every other byte (and the backquote) the string \xHH of
\* its value.
Bytes ==
  <<"\\x00", "\\x01", "\\x02", "\\x03", "\\x04", "\\x05", "\\x06", "\\x07",
    "\\x08", "\\x09", "\\x0A", "\\x0B", "\\x0C", "\\x0D", "\\x0E", "\\x0F",
    "\\x10", "\\x11", "\\x12", "\\x13", "\\x14", "\\x15", "\\x16", "\\x17",
    "\\x18", "\\x19", "\\x1A", "\\x1B", "\\x1C", "\\x1D", "\\x1E", "\\x1F",
    " ", "!", "\"", "#", "$", "%", "&", "'", "(", ")", "*", "+", ",", "-",
    ".", "/", "0", "1", "2", "3", "4", "5", "6", "7", "8", "9", ":", ";",
    "<", "=", ">", "?", "@", "A", "B", "C", "D", "E", "F", "G", "H", "I",
    "J", "K", "L", "M", "N", "O", "P", "Q", "R", "S", "T", "U", "V", "W",
    "X", "Y", "Z", "[", "\\", "]", "^", "_", "\\x60", "a", "b", "c", "d",
    "e", "f", "g", "h", "i", "j", "k", "l", "m", "n", "o", "p", "q", "r",
    "s", "t", "u", "v", "w", "x", "y", "z", "{", "|", "}", "~", "\\x7F",
    "\\x80", "\\x81", "\\x82", "\\x83", "\\x84", "\\x85", "\\x86", "\\x87",
    "\\x88", "\\x89", "\\x8A", "\\x8B", "\\x8C", "\\x8D", "\\x8E", "\\x8F",
    "\\x90", "\\x91", "\\x92", "\\x93", "\\x94", "\\x95", "\\x96", "\\x97",
    "\\x98", "\\x99", "\\x9A", "\\x9B", "\\x9C", "\\x9D", "\\x9E", "\\x9F",
    "\\xA0", "\\xA1", "\\xA2", "\\xA3", "\\xA4", "\\xA5", "\\xA6", "\\xA7",
    "\\xA8", "\\xA9", "\\xAA", "\\xAB", "\\xAC", "\\xAD", "\\xAE", "\\xAF",
    "\\xB0", "\\xB1", "\\xB2", "\\xB3", "\\xB4", "\\xB5", "\\xB6", "\\xB7",
    "\\xB8", "\\xB9", "\\xBA", "\\xBB", "\\xBC", "\\xBD", "\\xBE", "\\xBF",
    "\\xC0", "\\xC1", "\\xC2", "\\xC3", "\\xC4", "\\xC5", "\\xC6", "\\xC7",
    "\\xC8", "\\xC9", "\\xCA", "\\xCB", "\\xCC", "\\xCD", "\\xCE", "\\xCF",
    "\\xD0", "\\xD1", "\\xD2", "\\xD3", "\\xD4", "\\xD5", "\\xD6", "\\xD7",
    "\\xD8", "\\xD9", "\\xDA", "\\xDB", "\\xDC", "\\xDD", "\\xDE", "\\xDF",
    "\\xE0", "\\xE1", "\\xE2", "\\xE3", "\\xE4", "\\xE5", "\\xE6", "\\xE7",
    "\\xE8", "\\xE9", "\\xEA", "\\xEB", "\\xEC", "\\xED", "\\xEE", "\\xEF",
    "\\xF0", "\\xF1", "\\xF2", "\\xF3", "\\xF4", "\\xF5", "\\xF6", "\\xF7",
    "\\xF8", "\\xF9", "\\xFA", "\\xFB", "\\xFC", "\\xFD", "\\xFE", "\\xFF">>

\* The byte of value n, and the value of byte c.
Chr(n) == Bytes[n + 1]

Ord(c) == (CHOOSE i \in 1..Len(Bytes) : Bytes[i] = c) - 1

\* "0123456789ABCDEF" (url.upperhex) and its lower-case form.
HexUpper ==
  <<"0", "1", "2", "3", "4", "5", "6", "7", "8", "9", "A", "B", "C", "D", "E", "F">>

HexLower ==
  <<"0", "1", "2", "3", "4", "5", "6", "7", "8", "9", "a", "b", "c", "d", "e", "f">>

\* url.ishex and url.unhex
ishex(c) == \E i \in 1..Len(HexUpper) : HexUpper[i] = c \/ HexLower[i] = c

unhex(c) == (CHOOSE i \in 1..Len(HexUpper) : HexUpper[i] = c \/ HexLower[i] = c) - 1

\* ------------------------------------------------------------- package url
\* A nil *url.Userinfo.
NilUser ==
  [isNil |-> TRUE, username |-> <<>>, password |-> <<>>, passwordSet |-> FALSE]

\* The zero url.URL.
EmptyURL ==
  [Scheme |-> <<>>, Opaque |-> <<>>, User |-> NilUser, Host |-> <<>>, Path |-> <<>>,
   RawPath |-> <<>>, RawQuery |-> <<>>, ForceQuery |-> FALSE,
   OmitHost |-> FALSE, Fragment |-> <<>>, RawFragment |-> <<>>]

\* The bytes url.shouldEscape leaves alone in a host.
HostPlain ==
  {"!", "$", "&", "'", "(", ")", "*", "+", ",", ";", "=", ":", "[", "]", "<",
   ">", "\""}

\* The reserved bytes of url.shouldEscape.
Reserved == {"$", "&", "+", ",", "/", ":", ";", "=", "?", "@"}

\* url.shouldEscape(c, mode) for the modes encodePath ("path"), encodeHost
\* ("host"), encodeZone ("zone"), encodeUserPassword ("userPassword") and
\* encodeFragment ("fragment").
shouldEscape(c, mode) ==
  IF c \in Letters \cup Digits THEN FALSE
  ELSE IF mode \in {"host", "zone"} /\ c \in HostPlain THEN FALSE
  ELSE IF c \in {"-", "_", ".", "~"} THEN FALSE
  ELSE IF c \in Reserved
  THEN IF mode = "path" THEN c = "?"
       ELSE IF mode = "userPassword" THEN c \in {"@", "/", "?", ":"}
       ELSE IF mode = "fragment" THEN FALSE
       ELSE TRUE
  ELSE IF mode = "fragment" /\ c \in {"!", "(", ")", "*"} THEN FALSE
  ELSE TRUE

\* url.escape(s, mode): every byte that shouldEscape names becomes %XX, in
\* upper-case hex.
RECURSIVE escape(_, _)
escape(s, mode) ==
  IF s = <<>> THEN <<>>
  ELSE (IF shouldEscape(s[1], mode)
        THEN <<"%", HexUpper[(Ord(s[1]) \div 16) + 1], HexUpper[(Ord(s[1]) % 16) + 1]>>
        ELSE <<s[1]>>) \o escape(Tail(s), mode)

\* url.unescape(s, mode) from byte i on, acc being what is decoded so far:
\* [ok, s].  A "%" needs two hex digits after it; in a host an escape may
\* only stand for a non-ASCII byte (or be %25), in a zone only for a space
\* or a byte a host may hold (or be %25), and in both an ASCII byte that
\* must be escaped is an error.
RECURSIVE unescapeFrom(_, _, _, _)
unescapeFrom(s, i, mode, acc) ==
  IF i > Len(s) THEN [ok |-> TRUE, s |-> acc]
  ELSE IF s[i] = "%"
  THEN IF i + 2 > Len(s) \/ ~ishex(s[i + 1]) \/ ~ishex(s[i + 2])
       THEN [ok |-> FALSE, s |-> <<>>]
       ELSE IF /\ mode = "host"
               /\ unhex(s[i + 1]) < 8
               /\ SubSeq(s, i, i + 2) # <<"%", "2", "5">>
       THEN [ok |-> FALSE, s |-> <<>>]
       ELSE IF /\ mode = "zone"
               /\ SubSeq(s, i, i + 2) # <<"%", "2", "5">>
               /\ Chr(16 * unhex(s[i + 1]) + unhex(s[i + 2])) # " "
               /\ shouldEscape(Chr(16 * unhex(s[i + 1]) + unhex(s[i + 2])), "host")
       THEN [ok |-> FALSE, s |-> <<>>]
       ELSE unescapeFrom(s, i + 3, mode,
                         Append(acc, Chr(16 * unhex(s[i + 1]) + unhex(s[i + 2]))))
  ELSE IF mode \in {"host", "zone"} /\ shouldEscape(s[i], "host") /\ Ord(s[i]) < 128
  THEN [ok |-> FALSE, s |-> <<>>]
  ELSE unescapeFrom(s, i + 1, mode, Append(acc, s[i]))

unescape(s, mode) == unescapeFrom(s, 1, mode, <<>>)

\* url.validEncoded(s, mode)
validEncoded(s, mode) ==
  \A i \in 1..Len(s) :
    \/ s[i] \in {"!", "$", "&", "'", "(", ")", "*", "+", ",", ";", "=", ":",
                 "@", "[", "]", "%"}
    \/ ~shouldEscape(s[i], mode)

\* (*URL).setPath(p) once p is unescaped into un: [ok, url]; RawPath is kept
\* only when p is not the default encoding of the path.
setPathUn(u, p, un) ==
  IF ~un.ok THEN [ok |-> FALSE, url |-> u]
  ELSE [ok |-> TRUE,
        url |-> [u EXCEPT !.Path = un.s,
                          !.RawPath = IF escape(un.s, "path") = p THEN <<>> ELSE p]]

\* (*URL).setPath(p)
setPath(u, p) == setPathUn(u, p, unescape(p, "path"))

\* (*URL).EscapedPath()
EscapedPath(u) ==
  IF /\ u.RawPath # <<>>
     /\ validEncoded(u.RawPath, "path")
     /\ unescape(u.RawPath, "path") = [ok |-> TRUE, s |-> u.Path]
  THEN u.RawPath
  ELSE IF u.Path = <<"*">> THEN <<"*">>
  ELSE escape(u.Path, "path")

\* (*URL).setFragment(f) once f is unescaped into un: [ok, url].
setFragmentUn(u, f, un) ==
  IF ~un.ok THEN [ok |-> FALSE, url |-> u]
  ELSE [ok |-> TRUE,
        url |-> [u EXCEPT !.Fragment = un.s,
                          !.RawFragment =
                            IF escape(un.s, "fragment") = f THEN <<>> ELSE f]]

\* (*URL).setFragment(f)
setFragment(u, f) == setFragmentUn(u, f, unescape(f, "fragment"))

\* (*URL).EscapedFragment()
EscapedFragment(u) ==
  IF /\ u.RawFragment # <<>>
     /\ validEncoded(u.RawFragment, "fragment")
     /\ unescape(u.RawFragment, "fragment") = [ok |-> TRUE, s |-> u.Fragment]
  THEN u.RawFragment
  ELSE escape(u.Fragment, "fragment")

\* url.getScheme(rawURL), scanning from byte i (1-based):
\* [ok, scheme, rest]; ok = FALSE is "missing protocol scheme".
RECURSIVE getSchemeFrom(_, _)
getSchemeFrom(rawURL, i) ==
  IF i > Len(rawURL) THEN [ok |-> TRUE, scheme |-> <<>>, rest |-> rawURL]
  ELSE IF rawURL[i] \in Letters THEN getSchemeFrom(rawURL, i + 1)
  ELSE IF rawURL[i] \in Digits \cup {"+", "-", "."}
  THEN IF i = 1 THEN [ok |-> TRUE, scheme |-> <<>>, rest |-> rawURL]
       ELSE getSchemeFrom(rawURL, i + 1)
  ELSE IF rawURL[i] = ":"
  THEN IF i = 1 THEN [ok |-> FALSE, scheme |-> <<>>, rest |-> <<>>]
       ELSE [ok |-> TRUE, scheme |-> SubSeq(rawURL, 1, i - 1),
             rest |-> SubSeq(rawURL, i + 1, Len(rawURL))]
  ELSE [ok |-> TRUE, scheme |-> <<>>, rest |-> rawURL]

getScheme(rawURL) == getSchemeFrom(rawURL, 1)

\* url.validOptionalPort: "" or ":" followed by digits only.
validOptionalPort(port) ==
  \/ port = <<>>
  \/ /\ port[1] = ":"
     /\ \A i \in 2..Len(port) : port[i] \in Digits

\* url.parseHost for a host that does not start with "[", given the 1-based
\* index i of its last colon: the port after the last colon must be valid,
\* and the host is unescaped.  [ok, s].
parseHostAt(host, i) ==
  IF i # 0 /\ ~validOptionalPort(SubSeq(host, i, Len(host)))
  THEN [ok |-> FALSE, s |-> <<>>]
  ELSE unescape(host, "host")

\* strings.Index(s, "%25"), 1-based; 0 when absent.
IndexPercent25(s) ==
  IF \E i \in 1..(Len(s) - 2) : SubSeq(s, i, i + 2) = <<"%", "2", "5">>
  THEN CHOOSE i \in 1..(Len(s) - 2) :
         /\ SubSeq(s, i, i + 2) = <<"%", "2", "5">>
         /\ \A j \in 1..(i - 1) : SubSeq(s, j, j + 2) # <<"%", "2", "5">>
  ELSE 0

\* The three parts of an IP literal with a zone, unescaped: [ok, s].
parseHostJoin(h1, h2, h3) ==
  IF ~h1.ok \/ ~h2.ok \/ ~h3.ok THEN [ok |-> FALSE, s |-> <<>>]
  ELSE [ok |-> TRUE, s |-> h1.s \o h2.s \o h3.s]

\* url.parseHost for an IP literal whose last "]" is at the 1-based index i,
\* z being the 1-based index of "%25" before it (0: no zone).
parseHostZone(host, i, z) ==
  IF z = 0 THEN unescape(host, "host")
  ELSE parseHostJoin(unescape(SubSeq(host, 1, z - 1), "host"),
                     unescape(SubSeq(host, z, i - 1), "zone"),
                     unescape(SubSeq(host, i, Len(host)), "host"))

\* url.parseHost for a host that starts with "[", given the 1-based index i
\* of its last "]" (0: missing): what follows the "]" must be a valid port.
parseHostLiteral(host, i) ==
  IF i = 0 THEN [ok |-> FALSE, s |-> <<>>]
  ELSE IF ~validOptionalPort(SubSeq(host, i + 1, Len(host)))
  THEN [ok |-> FALSE, s |-> <<>>]
  ELSE parseHostZone(host, i, IndexPercent25(SubSeq(host, 1, i - 1)))

\* url.parseHost(host): [ok, s].
parseHost(host) ==
  IF HasPrefix(host, <<"[">>) THEN parseHostLiteral(host, LastIndex(host, "]"))
  ELSE parseHostAt(host, LastIndex(host, ":"))

\* url.validUserinfo
validUserinfo(s) ==
  \A i \in 1..Len(s) :
    s[i] \in Letters \cup Digits
             \cup {"-", ".", "_", ":", "~", "!", "$", "&", "'", "(", ")", "*",
                   "+", ",", ";", "=", "%", "@"}

\* The user-info of url.parseAuthority once the user name and the password
\* are unescaped into un and pw: [ok, user].
parseUserinfoParts(un, pw, passwordSet) ==
  IF ~un.ok \/ ~pw.ok THEN [ok |-> FALSE, user |-> NilUser]
  ELSE [ok |-> TRUE,
        user |-> [isNil |-> FALSE, username |-> un.s, password |-> pw.s,
                  passwordSet |-> passwordSet]]

\* The user-info branch of url.parseAuthority: userinfo is what precedes the
\* last "@"; a ":" splits off the password.
parseUserinfo(userinfo) ==
  IF ~validUserinfo(userinfo) THEN [ok |-> FALSE, user |-> NilUser]
  ELSE IF Index(userinfo, ":") = 0
  THEN parseUserinfoParts(unescape(userinfo, "userPassword"),
                          [ok |-> TRUE, s |-> <<>>], FALSE)
  ELSE parseUserinfoParts(unescape(Cut(userinfo, ":")[1], "userPassword"),
                          unescape(Cut(userinfo, ":")[2], "userPassword"), TRUE)

\* url.parseAuthority once the host is parsed into ph and the user-info into
\* pu: [ok, user, host].
parseAuthorityParts(ph, pu) ==
  IF ~ph.ok \/ ~pu.ok THEN [ok |-> FALSE, user |-> NilUser, host |-> <<>>]
  ELSE [ok |-> TRUE, user |-> pu.user, host |-> ph.s]

\* url.parseAuthority(authority), i being the 1-based index of its last "@"
\* (0: none): the host is what follows it, and is parsed first.
parseAuthoritySplit(authority, i) ==
  IF i = 0 THEN parseAuthorityParts(parseHost(authority), [ok |-> TRUE, user |-> NilUser])
  ELSE IF ~parseHost(SubSeq(authority, i + 1, Len(authority))).ok
  THEN [ok |-> FALSE, user |-> NilUser, host |-> <<>>]
  ELSE parseAuthorityParts(parseHost(SubSeq(authority, i + 1, Len(authority))),
                           parseUserinfo(SubSeq(authority, 1, i - 1)))

parseAuthority(authority) == parseAuthoritySplit(authority, LastIndex(authority, "@"))

\* The authority branch of url.parse once the authority is parsed into pa:
\* the path is what follows the authority.
parseAuthorityHost(u0, pa, path) ==
  IF ~pa.ok THEN [ok |-> FALSE, url |-> EmptyURL]
  ELSE setPath([u0 EXCEPT !.User = pa.user, !.Host = pa.host], path)

\* The authority branch of url.parse: rest starts with "//"; auth0 is what
\* follows the "//" and i the 1-based index of its first "/" (0: none).
parseAuthorityAt(u0, auth0, i) ==
  parseAuthorityHost(u0,
                     parseAuthority(IF i = 0 THEN auth0 ELSE Upto(auth0, i - 1)),
                     IF i = 0 THEN <<>> ELSE From(auth0, i - 1))

\* url.parse after the query is split off: u0 holds the scheme and the query,
\* rest is what is left.
parseRest(u0, rest) ==
  IF ~HasPrefix(rest, <<"/">>) /\ u0.Scheme # <<>>
  THEN [ok |-> TRUE, url |-> [u0 EXCEPT !.Opaque = rest]]
  ELSE IF ~HasPrefix(rest, <<"/">>) /\ Index(Cut(rest, "/")[1], ":") # 0
  THEN [ok |-> FALSE, url |-> EmptyURL]
  ELSE IF (u0.Scheme # <<>> \/ ~HasPrefix(rest, <<"/", "/", "/">>))
          /\ HasPrefix(rest, <<"/", "/">>)
  THEN parseAuthorityAt(u0, From(rest, 2), Index(From(rest, 2), "/"))
  ELSE setPath([u0 EXCEPT !.OmitHost = (u0.Scheme # <<>> /\ HasPrefix(rest, <<"/">>))],
               rest)

\* url.parse after getScheme: the scheme is lower-cased; a single trailing "?"
\* forces an empty query, else the query is what follows the first "?".
parseQuery(scheme, rest) ==
  IF HasSuffix(rest, <<"?">>) /\ Count(rest, "?") = 1
  THEN parseRest([EmptyURL EXCEPT !.Scheme = scheme, !.ForceQuery = TRUE],
                 Upto(rest, Len(rest) - 1))
  ELSE parseRest([EmptyURL EXCEPT !.Scheme = scheme,
                                  !.RawQuery = From(rest, Len(Cut(rest, "?")[1]) + 1)],
                 Cut(rest, "?")[1])

\* url.parse given the result of getScheme.
parseScheme(sch) ==
  IF ~sch.ok THEN [ok |-> FALSE, url |-> EmptyURL]
  ELSE parseQuery(ToLower(sch.scheme), sch.rest)

\* The control bytes: below the space, and 0x7F.
CTLBytes == {Chr(n) : n \in 0..31} \cup {Chr(127)}

\* url.stringContainsCTLByte
stringContainsCTLByte(s) == \E i \in 1..Len(s) : s[i] \in CTLBytes

\* url.parse(rawURL, false) for a rawURL without "#": a control byte is an
\* error; "*" is a path of its own.
parse(rawURL) ==
  IF stringContainsCTLByte(rawURL) THEN [ok |-> FALSE, url |-> EmptyURL]
  ELSE IF rawURL = <<"*">> THEN [ok |-> TRUE, url |-> [EmptyURL EXCEPT !.Path = <<"*">>]]
  ELSE parseScheme(getScheme(rawURL))

\* url.Parse once rawURL is cut at its first "#" and the part before it is
\* parsed into p: a non-empty fragment is set.
ParseFragment(p, frag) ==
  IF ~p.ok THEN [ok |-> FALSE, url |-> EmptyURL]
  ELSE IF frag = <<>> THEN p
  ELSE IF ~setFragment(p.url, frag).ok THEN [ok |-> FALSE, url |-> EmptyURL]
  ELSE setFragment(p.url, frag)

ParseCut(c) == ParseFragment(parse(c[1]), c[2])

\* url.Parse(rawURL): [ok, url].
Parse(rawURL) == ParseCut(Cut(rawURL, "#"))

\* One round of the loop of url.resolvePath on element elem: dst is the
\* builder (with its leading "/"), first the loop's flag.  <<dst, first>>.
resolveElem(elem, dst, first) ==
  IF elem = <<".">> THEN <<dst, FALSE>>
  ELSE IF elem = <<".", ".">>
  THEN IF LastIndex(From(dst, 1), "/") = 0 THEN <<(<<"/">>), TRUE>>
       ELSE <<(<<"/">> \o Upto(From(dst, 1), LastIndex(From(dst, 1), "/") - 1)), first>>
  ELSE <<(IF first THEN dst \o elem ELSE dst \o <<"/">> \o elem), FALSE>>

\* The loop of url.resolvePath over the "/"-separated elements of remaining.
\* Returns <<dst, last element>>.
RECURSIVE resolveLoop(_, _, _)
RECURSIVE resolveCut(_, _, _)
RECURSIVE resolveNext(_, _)
resolveNext(c, next) ==
  IF c[3] THEN resolveLoop(c[2], next[1], next[2])
  ELSE <<next[1], c[1]>>

resolveCut(c, dst, first) == resolveNext(c, resolveElem(c[1], dst, first))

resolveLoop(remaining, dst, first) == resolveCut(Cut(remaining, "/"), dst, first)

\* The end of url.resolvePath: l is <<dst, last element>>; a last element "."
\* or ".." adds a "/", and one of two leading "/" is dropped.
resolveTrim(d) == IF Len(d) > 1 /\ d[2] = "/" THEN From(d, 1) ELSE d

resolveEnd(l) ==
  resolveTrim(IF l[2] = <<".">> \/ l[2] = <<".", ".">>
              THEN l[1] \o <<"/">> ELSE l[1])

\* url.resolvePath once full is known.
resolveFull(full) ==
  IF full = <<>> THEN <<>>
  ELSE resolveEnd(resolveLoop(full, <<"/">>, TRUE))

\* url.resolvePath(base, ref)
resolvePath(base, ref) ==
  resolveFull(IF ref = <<>> THEN base
              ELSE IF ref[1] # "/" THEN Upto(base, LastIndex(base, "/")) \o ref
              ELSE ref)

\* The copy of ref that ResolveReference starts from: it takes the scheme of
\* u when ref has none.
resolveCopy(u, ref) ==
  IF ref.Scheme = <<>> THEN [ref EXCEPT !.Scheme = u.Scheme] ELSE ref

\* ResolveReference for a ref with an empty path, no query and no "?": the
\* query of u is taken over, and its fragment when ref has none.
resolveInherit(u, ref, url) ==
  IF ref.Path = <<>> /\ ~ref.ForceQuery /\ ref.RawQuery = <<>>
  THEN [url EXCEPT !.RawQuery = u.RawQuery,
                   !.Fragment = IF ref.Fragment = <<>> THEN u.Fragment ELSE @,
                   !.RawFragment = IF ref.Fragment = <<>> THEN u.RawFragment ELSE @]
  ELSE url

\* The "abs_path" and "rel_path" cases of ResolveReference.
resolveRelative(u, ref, url) ==
  IF ref.Path = <<>> /\ u.Opaque # <<>>
  THEN [url EXCEPT !.Opaque = u.Opaque, !.User = NilUser, !.Host = <<>>,
                   !.Path = <<>>]
  ELSE setPath([url EXCEPT !.Host = u.Host, !.User = u.User],
               resolvePath(EscapedPath(u), EscapedPath(ref))).url

\* (*URL).ResolveReference(ref); the receiver u is read only when ref has no
\* scheme.
ResolveReference(u, ref) ==
  IF ref.Scheme # <<>> \/ ref.Host # <<>> \/ ~ref.User.isNil
  THEN setPath(resolveCopy(u, ref), resolvePath(EscapedPath(ref), <<>>)).url
  ELSE IF ref.Opaque # <<>>
  THEN [resolveCopy(u, ref) EXCEPT !.User = NilUser, !.Host = <<>>, !.Path = <<>>]
  ELSE resolveRelative(u, ref, resolveInherit(u, ref, resolveCopy(u, ref)))

\* (*Userinfo).String()
UserinfoString(user) ==
  IF user.isNil THEN <<>>
  ELSE escape(user.username, "userPassword")
       \o (IF user.passwordSet
           THEN <<":">> \o escape(user.password, "userPassword") ELSE <<>>)

\* What (*URL).String() writes for the authority.
URLAuthority(u) ==
  IF u.Scheme # <<>> \/ u.Host # <<>> \/ ~u.User.isNil
  THEN IF u.OmitHost /\ u.Host = <<>> /\ u.User.isNil THEN <<>>
       ELSE (IF u.Host # <<>> \/ u.Path # <<>> \/ ~u.User.isNil
             THEN <<"/", "/">> ELSE <<>>)
            \o (IF u.User.isNil THEN <<>> ELSE UserinfoString(u.User) \o <<"@">>)
            \o escape(u.Host, "host")
  ELSE <<>>

\* What (*URL).String() writes after the scheme when there is no Opaque: the
\* authority auth and the escaped path, with a "/" between a host and a
\* rootless path, and "./" before a first segment with a colon when nothing
\* precedes the path.
URLHierPart(u, auth, path) ==
  auth
  \o (IF path # <<>> /\ path[1] # "/" /\ u.Host # <<>> THEN <<"/">> ELSE <<>>)
  \o (IF u.Scheme = <<>> /\ auth = <<>>
         /\ ~(path # <<>> /\ path[1] # "/" /\ u.Host # <<>>)
         /\ Index(Cut(path, "/")[1], ":") # 0
      THEN <<".", "/">> ELSE <<>>)
  \o path

\* (*URL).String()
URLString(u) ==
  (IF u.Scheme # <<>> THEN u.Scheme \o <<":">> ELSE <<>>)
  \o (IF u.Opaque # <<>> THEN u.Opaque
      ELSE URLHierPart(u, URLAuthority(u), EscapedPath(u)))
  \o (IF u.ForceQuery \/ u.RawQuery # <<>> THEN <<"?">> \o u.RawQuery ELSE <<>>)
  \o (IF u.Fragment # <<>> THEN <<"#">> \o EscapedFragment(u) ELSE <<>>)

\* ------------------------------------------------------------ src/ebay.go
\* const BaseURL = "https://api.ebay.com/"
BaseURL ==
  <<"h", "t", "t", "p", "s", ":", "/", "/", "a", "p", "i", ".",
    "e", "b", "a", "y", ".", "c", "o", "m", "/">>

\* const SandboxBaseURL = "https://api.sandbox.ebay.com/"
SandboxBaseURL ==
  <<"h", "t", "t", "p", "s", ":", "/", "/", "a", "p", "i", ".",
    "s", "a", "n", "d", "b", "o", "x", ".",
    "e", "b", "a", "y", ".", "c", "o", "m", "/">>

\* A *url.URL: nil, or a pointer to u.
NilURL == [isNil |-> TRUE, u |-> EmptyURL]

PtrURL(u) == [isNil |-> FALSE, u |-> u]

\* The state before any constructor has returned a client.
NoClient == [made |-> FALSE, client |-> "none", baseURL |-> NilURL]

\* newClient(httpclient, baseURL): the error of url.Parse is dropped, so an
\* unparsable base URL leaves Client.baseURL nil.
newClientParsed(httpclient, p) ==
  [made |-> TRUE,
   client |-> IF httpclient = "nil" THEN "DefaultClient" ELSE httpclient,
   baseURL |-> IF p.ok THEN PtrURL(p.url) ELSE NilURL]

newClient(httpclient, baseURL) == newClientParsed(httpclient, Parse(baseURL))

\* The guard of NewCustomClient: the base URL must have a trailing slash.
TrailingSlashMissing(baseURL) == ~HasSuffix(baseURL, <<"/">>)

\* NewCustomClient(httpclient, baseURL): [c, err].
NewCustomClientFn(httpclient, baseURL) ==
  IF TrailingSlashMissing(baseURL)
  THEN [c |-> NoClient, err |-> "TrailingSlash"]
  ELSE [c |-> newClient(httpclient, baseURL), err |-> "nil"]

\* A nil *http.Request.
NilReq ==
  [isNil |-> TRUE, Method |-> <<>>, URL |-> EmptyURL, Header |-> <<>>,
   Body |-> "none"]

\* The token bytes (httpguts.IsTokenRune): letters, digits and
\* !#$%&'*+-.^_`|~ ; the space is none.
TokenBytes ==
  Letters \cup Digits
  \cup {"!", "#", "$", "%", "&", "'", "*", "+", "-", ".", "^", "_", "\\x60",
        "|", "~"}

\* net/http validMethod: a non-empty token.
validMethod(method) ==
  /\ Len(method) > 0
  /\ \A i \in 1..Len(method) : method[i] \in TokenBytes

\* net/http removeEmptyPort: a host with a port loses a trailing ":".
removeEmptyPort(host) ==
  IF LastIndex(host, ":") > 0 /\ HasSuffix(host, <<":">>)
  THEN Upto(host, Len(host) - 1)
  ELSE host

\* http.NewRequest once the method m is defaulted and the URL parsed into p.
httpNewRequestParsed(m, p, body) ==
  IF ~validMethod(m) \/ ~p.ok THEN [ok |-> FALSE, req |-> NilReq]
  ELSE [ok |-> TRUE,
        req |-> [isNil |-> FALSE, Method |-> m,
                 URL |-> [p.url EXCEPT !.Host = removeEmptyPort(p.url.Host)],
                 Header |-> <<>>, Body |-> body]]

\* http.NewRequest(method, url, body): [ok, req].  An empty method means GET;
\* the URL string is parsed again.
httpNewRequest(method, url, body) ==
  httpNewRequestParsed(IF method = <<>> THEN <<"G", "E", "T">> ELSE method,
                       Parse(url), body)

\* json.NewEncoder(buf).Encode(body): body "ok" is an encodable value, body
\* "bad" a value encoding/json cannot encode (a channel or a func).
EncodeOk(body) == body # "bad"

EncodedBody(body) == IF body = "nil" THEN "none" ELSE "json"

\* url.QueryEscape on the bytes that occur in a contextual location.
RECURSIVE QueryEscape(_)
QueryEscape(s) ==
  IF s = <<>> THEN <<>>
  ELSE (IF s[1] = "=" THEN <<"%", "3", "D">>
        ELSE IF s[1] = "," THEN <<"%", "2", "C">>
        ELSE <<s[1]>>) \o QueryEscape(Tail(s))

\* "contextualLocation=" + QueryEscape("country=<country>,zip=<zip>")
ContextualLocationEntry(country, zip) ==
  <<"c", "o", "n", "t", "e", "x", "t", "u", "a", "l",
    "L", "o", "c", "a", "t", "i", "o", "n", "=">>
  \o QueryEscape(<<"c", "o", "u", "n", "t", "r", "y", "=">> \o country
                 \o <<",", "z", "i", "p", "=">> \o zip)

\* A faulty option, for comparison: it replaces the header.
OptBrowseContextualLocationOverwrite(o, r) ==
  [r EXCEPT !.Header = ContextualLocationEntry(o.country, o.zip)]

\* OptBrowseContextualLocation(country, zip)(req): the header
\* X-EBAY-C-ENDUSERCTX (the request's Header field here) gets the entry
\* appended after a comma, or becomes the entry when it had no value.
OptBrowseContextualLocation(o, r) ==
  [r EXCEPT !.Header =
     (IF Len(r.Header) > 0 THEN r.Header \o <<",">> ELSE <<>>)
     \o ContextualLocationEntry(o.country, o.zip)]

\* A faulty loop, for comparison: it runs the options last to first.
RECURSIVE ApplyOptsReversed(_, _, _)
ApplyOptsReversed(opts, r, log) ==
  IF opts = <<>> THEN [req |-> r, log |-> log]
  ELSE ApplyOptsReversed(SubSeq(opts, 1, Len(opts) - 1),
                         OptBrowseContextualLocation(opts[Len(opts)], r),
                         Append(log, opts[Len(opts)]))

\* The loop "for _, opt := range opts { opt(req) }" of NewRequest:
\* [req, log], log the options invoked so far, in invocation order.
RECURSIVE ApplyOpts(_, _, _)
ApplyOpts(opts, r, log) ==
  IF opts = <<>> THEN [req |-> r, log |-> log]
  ELSE ApplyOpts(Tail(opts), OptBrowseContextualLocation(opts[1], r),
                 Append(log, opts[1]))

\* A faulty check, for comparison: it looks at the end of url.
PrecedingSlashSuffix(url) == HasSuffix(url, <<"/">>)

\* The first check of NewRequest: strings.HasPrefix(url, "/").
PrecedingSlash(url) == HasPrefix(url, <<"/">>)

\* What NewRequest returns when it fails with error e.
NewRequestFailed(e) == [req |-> NilReq, err |-> e, log |-> <<>>, panic |-> FALSE]

\* The end of NewRequest: the options have run, a is what the loop made.
NewRequestDone(a) == [req |-> a.req, err |-> "nil", log |-> a.log, panic |-> FALSE]

\* NewRequest after http.NewRequest returned r: its error is returned, else
\* the options are applied.
NewRequestBuilt(r, opts) ==
  IF ~r.ok THEN NewRequestFailed("RequestError")
  ELSE NewRequestDone(ApplyOpts(opts, r.req, <<>>))

\* NewRequest after the reference was parsed into ref by c.baseURL.Parse,
\* which parses the reference before it touches its receiver, and whose
\* ResolveReference reads the receiver only for a reference without a
\* scheme: a nil c.baseURL is dereferenced (panic) only for a reference that
\* parses and has no scheme.
NewRequestParsed(c, method, ref, body, opts) ==
  IF ~ref.ok THEN NewRequestFailed("URLError")
  ELSE IF c.baseURL.isNil /\ ref.url.Scheme = <<>>
  THEN [req |-> NilReq, err |-> "nil", log |-> <<>>, panic |-> TRUE]
  ELSE IF ~EncodeOk(body) THEN NewRequestFailed("EncodingError")
  ELSE NewRequestBuilt(
         httpNewRequest(method, URLString(ResolveReference(c.baseURL.u, ref.url)),
                        EncodedBody(body)),
         opts)

\* (c *Client).NewRequest(method, url, body, opts...):
\* [req, err, log, panic].
NewRequestFn(c, method, url, body, opts) ==
  IF PrecedingSlash(url) THEN NewRequestFailed("InvalidPath")
  ELSE NewRequestParsed(c, method, Parse(url), body, opts)

\* ------------------------------------------------------------------- state
VARIABLES
  client,      \* the *Client the last constructor returned (NoClient: none yet)
  ctorErr,     \* the error the last constructor returned
  baseArg,     \* the base URL string the last constructor was given
  req,         \* the *http.Request the last NewRequest returned
  reqErr,      \* the error the last NewRequest returned
  call,        \* the arguments of the last NewRequest
  optLog,      \* the options the last NewRequest invoked, in order
  panicked,    \* a nil-pointer dereference has stopped the program
  hdrHist,     \* the values given to X-EBAY-C-ENDUSERCTX on req, oldest first
  pc,          \* where the current Client.Do call is
  ctxDone,     \* the context passed to Do is canceled or past its deadline
  cancelPhase, \* where Do was when the context became done
  v,           \* the destination argument of Do: "nil" or "ptr"
  dest,        \* the value the destination points to
  destBefore,  \* dest as it was when Do was called
  resp,        \* the *http.Response of the current Do call
  avail,       \* the response body has arrived and can be read
  dump,        \* the request dump Do captured
  checkErr,    \* the error CheckResponse returned in the current Do call
  doErr,       \* the error Do returned
  decoded      \* json Decode into the destination was attempted

buildVars == <<client, ctorErr, baseArg, req, reqErr, call, optLog, panicked, hdrHist>>

doVars == <<pc, ctxDone, cancelPhase, v, dest, destBefore, resp, avail, dump,
            checkErr, doErr, decoded>>

vars == <<client, ctorErr, baseArg, req, reqErr, call, optLog, panicked, hdrHist,
          pc, ctxDone, cancelPhase, v, dest, destBefore, resp, avail, dump,
          checkErr, doErr, decoded>>

\* No NewRequest call yet.
NoCall == [made |-> FALSE, method |-> <<>>, url |-> <<>>, body |-> "nil", opts |-> <<>>]

\* ------------------------------------------------------------ input sets
\* The bytes of the relative paths handed to NewRequest: a letter (also a hex
\* digit), the separators of a URL, and bytes net/url escapes or decodes.
PathBytes == {"a", "/", ".", ":", "?", " ", "#", "%"}

RelPaths == StringsUpTo(PathBytes, MaxPathLen)

\* The relative paths tried with every method and body: short ones (plain,
\* preceding slash, unparsable, dot segment), an item id with "|" as the
\* browse calls build it into their paths, percent-escapes, a fragment, a
\* control byte in the query, absolute URLs with user-info and with an IP
\* literal.
SamplePaths ==
  { <<"a">>,
    <<"/", "a">>,
    <<":">>,
    <<".">>,
    <<"v", "1", "|", "2", "|", "0">>,
    <<"a", "%", "2", "0", "b">>,
    <<"a", "%", "2", "F", "b", "?", "a", " ", "b">>,
    <<"a", "/", "b", "#", "c">>,
    <<"a", "?", "\\x01">>,
    <<"x", ":", "/", "/", "u", ":", "p", "@", "h", "/", "p">>,
    <<"x", ":", "/", "/", "[", ":", ":", "1", "]", "/", "p">> }

\* GET, the empty method (GET by default) and an invalid method ("G T").
Methods == {<<"G", "E", "T">>, <<>>, <<"G", " ", "T">>}

\* nil, an encodable value, a value encoding/json rejects.
Bodies == {"nil", "ok", "bad"}

\* The base URLs handed to NewCustomClient: a plain one, one with a path, one
\* without the trailing slash, one that url.Parse rejects, a relative one, one
\* with an upper-case scheme, one with an empty port, one with user-info, one
\* with an unclosed IP literal.
CustomBaseURLs ==
  { <<"h", "t", "t", "p", ":", "/", "/", "h", "/">>,
    <<"h", "t", "t", "p", ":", "/", "/", "h", "/", "a", "/">>,
    <<"h", "t", "t", "p", ":", "/", "/", "h">>,
    <<":", "/">>,
    <<"h", "/">>,
    <<"H", "t", "t", "p", ":", "/", "/", "h", "/">>,
    <<"h", "t", "t", "p", ":", "/", "/", "h", ":", "/">>,
    <<"h", "t", "t", "p", ":", "/", "/", "u", "@", "h", "/">>,
    <<"h", "t", "t", "p", ":", "/", "/", "[", "/">> }

HTTPClients == {"nil", "custom"}

\* The options of the explored calls: contextual locations.
Options ==
  { [country |-> <<"U", "S">>, zip |-> <<"1", "9", "4", "0", "6">>],
    [country |-> <<"F", "R">>, zip |-> <<"7", "5">>] }

OptLists == StringsUpTo(Options, MaxOpts)

\* A header value a caller set before an option runs.
ExistingHeader ==
  <<"a", "f", "f", "i", "l", "i", "a", "t", "e", "C", "a", "m", "p", "a", "i",
    "g", "n", "I", "d", "=", "1">>

\* The relative paths of the calls that carry options.
OptPaths == {<<"a">>, <<"/", "a">>, <<":">>, <<"a", "/", ".", ".">>}

\* ------------------------------------------------- construction and build
InitBuild ==
  /\ client = NoClient
  /\ ctorErr = "nil"
  /\ baseArg = <<>>
  /\ req = NilReq
  /\ reqErr = "nil"
  /\ call = NoCall
  /\ optLog = <<>>
  /\ panicked = FALSE
  /\ hdrHist = <<>>

\* Do is not running.
InitDoIdle ==
  /\ pc = "idle"
  /\ ctxDone = FALSE
  /\ cancelPhase = "none"
  /\ v = "nil"
  /\ dest = [ItemID |-> "unset"]
  /\ destBefore = [ItemID |-> "unset"]
  /\ resp = [present |-> FALSE, StatusCode |-> 0,
             Body |-> [syntax |-> "empty", errors |-> <<>>, itemId |-> "absent"],
             consumed |-> 0, closed |-> FALSE]
  /\ avail = FALSE
  /\ dump = <<>>
  /\ checkErr = [kind |-> "nil", Errors |-> <<>>, status |-> 0, dump |-> <<>>,
                 cause |-> "none"]
  /\ doErr = [kind |-> "nil", Errors |-> <<>>, status |-> 0, dump |-> <<>>,
              cause |-> "none"]
  /\ decoded = FALSE

\* A constructor returned, after the caller let go of the last request.
Constructed(c, e, b) ==
  /\ ~call.made
  /\ client' = c
  /\ ctorErr' = e
  /\ baseArg' = b
  /\ req' = NilReq
  /\ reqErr' = "nil"
  /\ call' = NoCall
  /\ optLog' = <<>>
  /\ hdrHist' = <<>>
  /\ UNCHANGED panicked

\* NewClient(httpclient)
NewClient(h) ==
  /\ ~panicked
  /\ Constructed(newClient(h, BaseURL), "nil", BaseURL)
  /\ UNCHANGED doVars

\* NewSandboxClient(httpclient)
NewSandboxClient(h) ==
  /\ ~panicked
  /\ Constructed(newClient(h, SandboxBaseURL), "nil", SandboxBaseURL)
  /\ UNCHANGED doVars

\* NewCustomClient(httpclient, baseURL)
NewCustomClient(h, b) ==
  /\ ~panicked
  /\ Constructed(NewCustomClientFn(h, b).c, NewCustomClientFn(h, b).err, b)
  /\ UNCHANGED doVars

\* The header entries a list of options stands for, in the list's order.
Entries(opts) ==
  [i \in 1..Len(opts) |-> ContextualLocationEntry(opts[i].country, opts[i].zip)]

\* c.NewRequest(method, url, body, opts...) on the current client, once the
\* caller has let go of the previous request.
NewRequestReturns(r, opts) ==
  /\ req' = r.req
  /\ reqErr' = r.err
  /\ optLog' = r.log
  /\ panicked' = r.panic
  /\ hdrHist' = IF r.err = "nil" /\ ~r.panic THEN Entries(opts) ELSE <<>>

NewRequest(method, url, body, opts) ==
  /\ ~panicked
  /\ client.made
  /\ ~call.made
  /\ NewRequestReturns(NewRequestFn(client, method, url, body, opts), opts)
  /\ call' = [made |-> TRUE, method |-> method, url |-> url, body |-> body,
              opts |-> opts]
  /\ UNCHANGED <<client, ctorErr, baseArg>>
  /\ UNCHANGED doVars

\* The caller lets go of the request and error of the last NewRequest: a
\* request lives for one call.
Release ==
  /\ ~panicked
  /\ call.made
  /\ pc = "idle"
  /\ req' = NilReq
  /\ reqErr' = "nil"
  /\ call' = NoCall
  /\ optLog' = <<>>
  /\ hdrHist' = <<>>
  /\ UNCHANGED <<client, ctorErr, baseArg, panicked>>
  /\ UNCHANGED doVars

NextBuild ==
  \/ Release
  \/ \E h \in HTTPClients : NewClient(h)
  \/ \E h \in HTTPClients : NewSandboxClient(h)
  \/ \E h \in HTTPClients, b \in CustomBaseURLs : NewCustomClient(h, b)
  \/ \E u \in RelPaths : NewRequest(<<"G", "E", "T">>, u, "nil", <<>>)
  \/ \E m \in Methods, u \in SamplePaths, b \in Bodies : NewRequest(m, u, b, <<>>)

\* Client construction and request building: GET requests without a body
\* for every relative path, every method and body for the sample paths.
InitBuildIdle == InitBuild /\ InitDoIdle

SpecBuild == InitBuildIdle /\ [][NextBuild]_vars

\* ---------------------------------------------------- claims on SpecBuild
\* Some "/"-separated element of p is "." or "..".
RECURSIVE HasDotSegment(_)
HasDotSegment(p) ==
  LET c == Cut(p, "/")
  IN \/ c[1] = <<".">>
     \/ c[1] = <<".", ".">>
     \/ (c[3] /\ HasDotSegment(c[2]))

\* The bytes a URL path may carry as they are: letters, digits, "-", "_",
\* ".", "~", the sub-delimiters, ":", "@", "/", "[" and "]".
KeptBytes ==
  {"a", "b", "c", "d", "e", "f", "g", "h", "i", "j", "k", "l", "m", "n", "o",
   "p", "q", "r", "s", "t", "u", "v", "w", "x", "y", "z",
   "A", "B", "C", "D", "E", "F", "G", "H", "I", "J", "K", "L", "M", "N", "O",
   "P", "Q", "R", "S", "T", "U", "V", "W", "X", "Y", "Z",
   "0", "1", "2", "3", "4", "5", "6", "7", "8", "9",
   "-", "_", ".", "~", "!", "$", "&", "'", "(", ")", "*", "+", ",", ";", "=",
   ":", "@", "/", "[", "]"}

\* The hexadecimal digits.
HexDigits ==
  {"0", "1", "2", "3", "4", "5", "6", "7", "8", "9",
   "a", "b", "c", "d", "e", "f", "A", "B", "C", "D", "E", "F"}

\* Every byte of p is a kept byte or the "%" of a percent-escape, a "%"
\* followed by two hexadecimal digits.
WellEncoded(p) ==
  \A i \in 1..Len(p) :
    \/ p[i] \in KeptBytes
    \/ /\ p[i] = "%"
       /\ i + 2 <= Len(p)
       /\ p[i + 1] \in HexDigits
       /\ p[i + 2] \in HexDigits

\* The bytes below the space, and the byte 0x7F.
ControlBytes ==
  {"\\x00", "\\x01", "\\x02", "\\x03", "\\x04", "\\x05", "\\x06", "\\x07",
   "\\x08", "\\x09", "\\x0A", "\\x0B", "\\x0C", "\\x0D", "\\x0E", "\\x0F",
   "\\x10", "\\x11", "\\x12", "\\x13", "\\x14", "\\x15", "\\x16", "\\x17",
   "\\x18", "\\x19", "\\x1A", "\\x1B", "\\x1C", "\\x1D", "\\x1E", "\\x1F",
   "\\x7F"}

\* A relative path without "#" and without control byte whose part before
\* the first "?" is well encoded, has no "." or ".." segment and no ":" in
\* its first segment.
PlainPath(url) ==
  /\ Index(url, "#") = 0
  /\ \A i \in 1..Len(url) : url[i] \notin ControlBytes
  /\ WellEncoded(Cut(url, "?")[1])
  /\ ~HasDotSegment(Cut(url, "?")[1])
  /\ Index(Cut(Cut(url, "?")[1], "/")[1], ":") = 0

\* A base URL string of the form scheme://host/path/ : a scheme of lower-case
\* letters, a host of letters, digits, "." and "-", a path of letters,
\* digits, "-", "_", ".", "~" and "/" without "." or ".." segment, and
\* nothing after the path.
CleanBase(b) ==
  LET i == Index(b, ":")
      rest == From(b, i)
      hp == From(rest, 2)
      j == Index(hp, "/")
  IN /\ i > 1
     /\ \A k \in 1..(i - 1) : b[k] \in LowerLetters
     /\ HasPrefix(rest, <<"/", "/">>)
     /\ j > 1
     /\ \A k \in 1..(j - 1) : hp[k] \in (Letters \cup Digits \cup {".", "-"})
     /\ \A k \in j..Len(hp) :
          hp[k] \in (Letters \cup Digits \cup {"-", "_", ".", "~", "/"})
     /\ HasSuffix(b, <<"/">>)
     /\ ~HasDotSegment(From(hp, j))

\* C1 as stated, on the two built-in clients with method GET and no body:
\* a path without a leading "/" builds a request whose URL is the base URL
\* with the path appended; a path with a leading "/" gives InvalidPath and no
\* request.
C1_Original ==
  (/\ call.made
   /\ baseArg \in {BaseURL, SandboxBaseURL}
   /\ call.method = <<"G", "E", "T">>
   /\ call.body = "nil")
  => IF HasPrefix(call.url, <<"/">>)
     THEN reqErr = "InvalidPath" /\ req.isNil
     ELSE /\ reqErr = "nil"
          /\ ~req.isNil
          /\ URLString(req.URL) = baseArg \o call.url

\* C1, amended: on every client a path with a leading "/" gives InvalidPath,
\* no request and no panic; a method that is no token or a body that cannot
\* be encoded gives an error and no request (unless the call panicked on a
\* missing base URL first); on a client whose base URL has the form
\* scheme://host/path/ (CleanBase), with method GET or the empty method and
\* an encodable body, a path without a leading "/", without "#" and without
\* a control byte, whose part before the first "?" holds only bytes a URL
\* path carries as they are and well-formed percent-escapes, has no "." or
\* ".." segment and no ":" in its first segment, builds a request whose URL
\* is the base URL with the path appended.
C1_BuildURL ==
  call.made =>
    /\ HasPrefix(call.url, <<"/">>)
         => (reqErr = "InvalidPath" /\ req.isNil /\ ~panicked)
    /\ (call.method = <<"G", " ", "T">> \/ call.body = "bad")
         => (panicked \/ (reqErr # "nil" /\ req.isNil))
    /\ (/\ ~HasPrefix(call.url, <<"/">>)
        /\ PlainPath(call.url)
        /\ CleanBase(baseArg)
        /\ call.method \in {<<>>, <<"G", "E", "T">>}
        /\ call.body # "bad")
         => (/\ reqErr = "nil"
             /\ ~req.isNil
             /\ ~panicked
             /\ URLString(req.URL) = baseArg \o call.url)

\* A request for "a%2Fb?a b" (a percent-escape in the path, a space in the
\* query) was built on the production client and its URL is the base URL
\* followed by the path.
C1_Witness ==
  /\ call.made
  /\ baseArg = BaseURL
  /\ call.url = <<"a", "%", "2", "F", "b", "?", "a", " ", "b">>
  /\ PlainPath(call.url)
  /\ reqErr = "nil"
  /\ URLString(req.URL) = BaseURL \o call.url

\* C9 as stated: NewCustomClient fails exactly for a base URL without a
\* trailing "/", every constructed client holds a non-nil absolute base URL
\* that ends in "/", and no NewRequest dereferences a nil base URL.
C9_Original ==
  /\ ~panicked
  /\ ctorErr # "nil" => (~client.made /\ ~HasSuffix(baseArg, <<"/">>))
  /\ client.made =>
       /\ ~client.baseURL.isNil
       /\ client.baseURL.u.Scheme # <<>>
       /\ client.baseURL.u.Host # <<>>
       /\ HasSuffix(URLString(client.baseURL.u), <<"/">>)

\* ------------------------------------------------------- options on requests
InitOpts ==
  /\ client = newClient("nil", BaseURL)
  /\ ctorErr = "nil"
  /\ baseArg = BaseURL
  /\ req = NilReq
  /\ reqErr = "nil"
  /\ call = NoCall
  /\ optLog = <<>>
  /\ panicked = FALSE
  /\ hdrHist = <<>>

\* r.Header.Set("X-EBAY-C-ENDUSERCTX", value) by the caller, on the request
\* NewRequest returned.
HeaderSet(value) ==
  /\ ~req.isNil
  /\ pc = "idle"
  /\ req' = [req EXCEPT !.Header = value]
  /\ hdrHist' = <<value>>
  /\ UNCHANGED <<client, ctorErr, baseArg, reqErr, call, optLog, panicked>>
  /\ UNCHANGED doVars

\* OptBrowseContextualLocation(country, zip)(r) by the caller, on the request
\* NewRequest returned.
ApplyOption(o) ==
  /\ ~req.isNil
  /\ pc = "idle"
  /\ Len(hdrHist) <= MaxOpts
  /\ req' = OptBrowseContextualLocation(o, req)
  /\ hdrHist' = Append(hdrHist, ContextualLocationEntry(o.country, o.zip))
  /\ UNCHANGED <<client, ctorErr, baseArg, reqErr, call, optLog, panicked>>
  /\ UNCHANGED doVars

NextOpts ==
  \/ Release
  \/ \E m \in Methods, u \in OptPaths, b \in Bodies, os \in OptLists :
       NewRequest(m, u, b, os)
  \/ HeaderSet(ExistingHeader)
  \/ \E o \in Options : ApplyOption(o)

\* Requests built with option lists, and options applied by hand.
InitOptsIdle == InitOpts /\ InitDoIdle

SpecOpts == InitOptsIdle /\ [][NextOpts]_vars

\* ------------------------------------------------------ claims on SpecOpts
\* The values of h joined by commas.
RECURSIVE JoinComma(_)
JoinComma(h) ==
  IF Len(h) = 0 THEN <<>>
  ELSE IF Len(h) = 1 THEN h[1]
  ELSE JoinComma(SubSeq(h, 1, Len(h) - 1)) \o <<",">> \o h[Len(h)]

\* C8: the X-EBAY-C-ENDUSERCTX header of a request is the comma-joined list
\* of every value given to it so far, oldest first: the value a caller set,
\* if any, then one contextualLocation entry per application of the option,
\* and it never starts with a comma.
C8_HeaderAppends ==
  ~req.isNil =>
    /\ req.Header = JoinComma(hdrHist)
    /\ req.Header # <<>> => req.Header[1] # ","

\* The header a caller set got one contextualLocation entry appended and
\* reads "affiliateCampaignId=1,contextualLocation=country%3DUS%2Czip%3D19406".
C8_Witness ==
  /\ ~req.isNil
  /\ Len(hdrHist) = 2
  /\ hdrHist[1] = ExistingHeader
  /\ req.Header =
    <<"a", "f", "f", "i", "l", "i", "a", "t", "e", "C", "a", "m", "p", "a",
    "i", "g", "n", "I", "d", "=", "1", ",", "c", "o", "n", "t", "e", "x",
    "t", "u", "a", "l", "L", "o", "c", "a", "t", "i", "o", "n", "=", "c",
    "o", "u", "n", "t", "r", "y", "%", "3", "D", "U", "S", "%", "2", "C",
    "z", "i", "p", "%", "3", "D", "1", "9", "4", "0", "6">>

\* The options applied one after the other, by hand, to request r: the last
\* option of the list is applied to what the options before it made of r.
RECURSIVE ManualApply(_, _)
ManualApply(opts, r) ==
  IF opts = <<>> THEN r
  ELSE OptBrowseContextualLocation(opts[Len(opts)],
         ManualApply(SubSeq(opts, 1, Len(opts) - 1), r))

\* C10: a NewRequest that succeeds has invoked each option of its list once,
\* in the list's order, and the request it returned is the request the same
\* call builds without options, with the options then applied by hand in that
\* order; a NewRequest that fails has invoked no option and returns no request.
C10_OptionsInOrder ==
  call.made =>
    IF reqErr = "nil" /\ ~panicked
    THEN /\ optLog = call.opts
         /\ hdrHist = Entries(call.opts) =>
              req = ManualApply(call.opts,
                      NewRequestFn(client, call.method, call.url, call.body,
                                   <<>>).req)
    ELSE /\ optLog = <<>>
         /\ req.isNil

\* NewRequest returned a request built with two different options, and its
\* header lists the two entries in the order of the option list.
C10_Witness ==
  /\ call.made
  /\ reqErr = "nil"
  /\ Len(call.opts) = 2
  /\ call.opts[1] # call.opts[2]
  /\ optLog = call.opts
  /\ req.Header = Entries(call.opts)[1] \o <<",">> \o Entries(call.opts)[2]

\* ------------------------------------------------- responses and errors
\* The nil error.
NilErr ==
  [kind |-> "nil", Errors |-> <<>>, status |-> 0, dump |-> <<>>, cause |-> "none"]

\* An error that is no *ErrorData: kind "transport" is what http.Client.Do
\* returned, kind "decode" what json Decode into the destination returned,
\* both wrapped by errors.WithStack; cause is the wrapped error.
PlainErr(kind, cause) ==
  [kind |-> kind, Errors |-> <<>>, status |-> 0, dump |-> <<>>, cause |-> cause]

\* No response yet.
NoResp ==
  [present |-> FALSE, StatusCode |-> 0,
   Body |-> [syntax |-> "empty", errors |-> <<>>, itemId |-> "absent"],
   consumed |-> 0, closed |-> FALSE]

\* One entry of the "errors" array of a JSON body: its "errorId" is a number
\* (typ "num"), a string (typ "str": not an int) or absent.
BodyEntries ==
  {[typ |-> "num", id |-> n] : n \in 0..MaxCode}
  \cup {[typ |-> "str", id |-> 0], [typ |-> "absent", id |-> 0]}

\* The response bodies: empty, not JSON, JSON cut short, a JSON object with an
\* "errors" array, a JSON object with an "itemId" that is a string or (wrongly)
\* a number.
RespBodies ==
  {[syntax |-> x, errors |-> <<>>, itemId |-> "absent"] :
     x \in {"empty", "invalid", "truncated"}}
  \cup {[syntax |-> "valid", errors |-> es, itemId |-> "absent"] :
          es \in StringsUpTo(BodyEntries, MaxErrors)}
  \cup {[syntax |-> "valid", errors |-> <<>>, itemId |-> x] : x \in {"str", "num"}}

\* The status codes of the explored responses.
StatusCodes == {199, 200, 204, 299, 300, 404, 500}

\* The length of a body, in reads: an empty body ends at once.
BodyLen(body) == IF body.syntax = "empty" THEN 0 ELSE 1

\* json.NewDecoder(resp.Body).Decode(errorData): [Errors, err].  Decode reads
\* a whole JSON value before it stores anything, so a failed read or a body
\* that is no JSON value leaves Errors empty; an "errorId" of the wrong type is
\* skipped (its entry keeps ErrorID 0) and reported after the rest is stored.
DecodeErrorData(body, readOk) ==
  IF ~readOk THEN [Errors |-> <<>>, err |-> "canceled"]
  ELSE IF body.syntax = "empty" THEN [Errors |-> <<>>, err |-> "EOF"]
  ELSE IF body.syntax = "invalid" THEN [Errors |-> <<>>, err |-> "syntax"]
  ELSE IF body.syntax = "truncated" THEN [Errors |-> <<>>, err |-> "unexpectedEOF"]
  ELSE [Errors |-> [i \in 1..Len(body.errors) |->
                      [ErrorID |-> IF body.errors[i].typ = "num"
                                   THEN body.errors[i].id ELSE 0]],
        err |-> IF \E i \in 1..Len(body.errors) : body.errors[i].typ = "str"
                THEN "type" ELSE "nil"]

\* json.NewDecoder(resp.Body).Decode(v) for a v that points to an item:
\* [dest, err].
DecodeItem(body, readOk, d) ==
  IF ~readOk THEN [dest |-> d, err |-> "canceled"]
  ELSE IF body.syntax = "empty" THEN [dest |-> d, err |-> "EOF"]
  ELSE IF body.syntax = "invalid" THEN [dest |-> d, err |-> "syntax"]
  ELSE IF body.syntax = "truncated" THEN [dest |-> d, err |-> "unexpectedEOF"]
  ELSE IF body.itemId = "str" THEN [dest |-> [d EXCEPT !.ItemID = "itemId"], err |-> "nil"]
  ELSE IF body.itemId = "num" THEN [dest |-> d, err |-> "type"]
  ELSE [dest |-> d, err |-> "nil"]

\* The test of CheckResponse: 200 <= s && s < 300.
StatusOK(s) == 200 <= s /\ s < 300

\* A faulty CheckResponse, for comparison: it returns the error of Decode.
CheckResponseStrict(r, d, readOk) ==
  IF StatusOK(r.StatusCode) THEN NilErr
  ELSE LET dec == DecodeErrorData(r.Body, readOk)
       IN IF dec.err # "nil" THEN PlainErr("decode", dec.err)
          ELSE [kind |-> "ErrorData", Errors |-> dec.Errors,
                status |-> r.StatusCode, dump |-> d, cause |-> "none"]

\* CheckResponse(req, resp, dump), readOk telling whether the body can be
\* read: nil for a 2xx status, else an *ErrorData with the response, the dump
\* and what Decode stored; the error of Decode is dropped.
CheckResponse(r, d, readOk) ==
  IF StatusOK(r.StatusCode) THEN NilErr
  ELSE [kind |-> "ErrorData", Errors |-> DecodeErrorData(r.Body, readOk).Errors,
        status |-> r.StatusCode, dump |-> d, cause |-> "none"]

\* The inner loop of IsError: some code of codes[j..] equals id.
RECURSIVE CodeMatches(_, _, _)
CodeMatches(id, codes, j) ==
  IF j > Len(codes) THEN FALSE
  ELSE IF id = codes[j] THEN TRUE
  ELSE CodeMatches(id, codes, j + 1)

\* The outer loop of IsError over errs[i..].
RECURSIVE EntryMatches(_, _, _)
EntryMatches(errs, codes, i) ==
  IF i > Len(errs) THEN FALSE
  ELSE IF CodeMatches(errs[i].ErrorID, codes, 1) THEN TRUE
  ELSE EntryMatches(errs, codes, i + 1)

\* A faulty IsError, for comparison: it looks at the first entry only.
IsErrorFirstEntry(err, codes) ==
  IF err.kind = "nil" THEN FALSE
  ELSE IF err.kind # "ErrorData" THEN FALSE
  ELSE Len(err.Errors) > 0 /\ CodeMatches(err.Errors[1].ErrorID, codes, 1)

\* IsError(err, codes...)
IsError(err, codes) ==
  IF err.kind = "nil" THEN FALSE
  ELSE IF err.kind # "ErrorData" THEN FALSE
  ELSE EntryMatches(err.Errors, codes, 1)

\* httputil.DumpRequest(req, true)
DumpRequest(r) == <<r.Method, URLString(r.URL), r.Header, r.Body>>

\* A faulty close, for comparison: the body is closed on success only.
DeferredCloseOnSuccess(r, err) ==
  IF err.kind = "nil" THEN [r EXCEPT !.closed = TRUE] ELSE r

\* defer resp.Body.Close(): the body is closed when Do returns err.
DeferredClose(r, err) == [r EXCEPT !.closed = TRUE]

\* A faulty Do, for comparison: it decodes into v before it looks at the
\* error of CheckResponse.
DoAfterCheckDecodeFirst(cerr, dst, d, r, readOk) ==
  LET dec == DecodeItem(r.Body, readOk, d)
  IN IF dst = "nil" THEN [err |-> cerr, dest |-> d, decoded |-> FALSE]
     ELSE IF cerr.kind # "nil" THEN [err |-> cerr, dest |-> dec.dest, decoded |-> TRUE]
     ELSE [err |-> IF dec.err = "nil" THEN NilErr ELSE PlainErr("decode", dec.err),
           dest |-> dec.dest, decoded |-> TRUE]

\* Do after CheckResponse returned cerr: the error of CheckResponse is
\* returned as it is; with a nil v nothing is decoded; else the body is
\* decoded into v and the error of Decode returned with a stack.
\* [err, dest, decoded].
DoAfterCheck(cerr, dst, d, r, readOk) ==
  IF cerr.kind # "nil" THEN [err |-> cerr, dest |-> d, decoded |-> FALSE]
  ELSE IF dst = "nil" THEN [err |-> NilErr, dest |-> d, decoded |-> FALSE]
  ELSE LET dec == DecodeItem(r.Body, readOk, d)
       IN [err |-> IF dec.err = "nil" THEN NilErr ELSE PlainErr("decode", dec.err),
           dest |-> dec.dest, decoded |-> TRUE]

\* --------------------------------------------------------------- Client.Do
\* The requests Do is called with: built by NewRequest on the production
\* client, without options and with one option.
DoRequests ==
  {NewRequestFn(newClient("nil", BaseURL), <<"G", "E", "T">>, <<"a">>, "nil", os).req :
     os \in {<<>>, <<[country |-> <<"U", "S">>, zip |-> <<"1", "9", "4", "0", "6">>]>>}}

InitDo ==
  /\ client = newClient("nil", BaseURL)
  /\ ctorErr = "nil"
  /\ baseArg = BaseURL
  /\ req \in DoRequests
  /\ reqErr = "nil"
  /\ call = NoCall
  /\ optLog = <<>>
  /\ panicked = FALSE
  /\ hdrHist = <<>>

\* c.Do(ctx, req, dst) is called, with a context that is already done or not:
\* the request is dumped and handed to the HTTP client.
DoCall(dst, done) ==
  /\ pc \in {"idle", "returned"}
  /\ ~req.isNil
  /\ pc' = "sending"
  /\ ctxDone' = done
  /\ cancelPhase' = IF done THEN "before" ELSE "none"
  /\ v' = dst
  /\ destBefore' = dest
  /\ resp' = NoResp
  /\ avail' = FALSE
  /\ dump' = DumpRequest(req)
  /\ checkErr' = NilErr
  /\ doErr' = NilErr
  /\ decoded' = FALSE
  /\ UNCHANGED dest
  /\ UNCHANGED buildVars

\* The context is canceled or passes its deadline while Do runs.
Cancel ==
  /\ pc \in {"sending", "checking", "decoding"}
  /\ ~ctxDone
  /\ ctxDone' = TRUE
  /\ cancelPhase' = IF pc = "sending" THEN "sending"
                    ELSE IF avail THEN "complete" ELSE "reading"
  /\ UNCHANGED <<pc, v, dest, destBefore, resp, avail, dump, checkErr, doErr, decoded>>
  /\ UNCHANGED buildVars

\* c.client.Do returns an error (no connection, or the context is done):
\* Do returns it with a stack.
TransportFail ==
  /\ pc = "sending"
  /\ pc' = "returned"
  /\ doErr' = PlainErr("transport", IF ctxDone THEN "canceled" ELSE "network")
  /\ UNCHANGED <<ctxDone, cancelPhase, v, dest, destBefore, resp, avail, dump,
                 checkErr, decoded>>
  /\ UNCHANGED buildVars

\* c.client.Do returns a response (status line and headers are in; the body
\* has arrived already or not).  Do runs on to its first read of the body:
\* CheckResponse returns nil for a 2xx status without reading, and with a
\* nil destination Do returns.
TransportRespond(status, body, arrived) ==
  /\ pc = "sending"
  /\ ~ctxDone
  /\ LET r == [present |-> TRUE, StatusCode |-> status, Body |-> body,
               consumed |-> 0, closed |-> FALSE]
     IN IF StatusOK(status)
        THEN /\ checkErr' = CheckResponse(r, dump, TRUE)
             /\ IF v = "nil"
                THEN LET a == DoAfterCheck(CheckResponse(r, dump, TRUE), v, dest, r, TRUE)
                     IN /\ pc' = "returned"
                        /\ doErr' = a.err
                        /\ dest' = a.dest
                        /\ decoded' = a.decoded
                        /\ resp' = DeferredClose(r, a.err)
                ELSE /\ pc' = "decoding"
                     /\ resp' = r
                     /\ UNCHANGED <<doErr, dest, decoded>>
        ELSE /\ pc' = "checking"
             /\ resp' = r
             /\ UNCHANGED <<checkErr, doErr, dest, decoded>>
  /\ avail' = (arrived \/ BodyLen(body) = 0)
  /\ UNCHANGED <<ctxDone, cancelPhase, v, destBefore, dump>>
  /\ UNCHANGED buildVars

\* The rest of the response body arrives.
BodyArrives ==
  /\ pc \in {"checking", "decoding"}
  /\ ~avail
  /\ ~ctxDone
  /\ avail' = TRUE
  /\ UNCHANGED <<pc, ctxDone, cancelPhase, v, dest, destBefore, resp, dump,
                 checkErr, doErr, decoded>>
  /\ UNCHANGED buildVars

\* The read of the body in CheckResponse ends (with the body, or with the
\* context's error): CheckResponse returns its *ErrorData and Do returns it.
FinishCheck ==
  /\ pc = "checking"
  /\ avail \/ ctxDone
  /\ LET r == [resp EXCEPT !.consumed = IF avail THEN BodyLen(resp.Body) ELSE 0]
         ce == CheckResponse(r, dump, avail)
         a == DoAfterCheck(ce, v, dest, r, avail)
     IN /\ checkErr' = ce
        /\ doErr' = a.err
        /\ dest' = a.dest
        /\ decoded' = a.decoded
        /\ resp' = DeferredClose(r, a.err)
  /\ pc' = "returned"
  /\ UNCHANGED <<ctxDone, cancelPhase, v, destBefore, avail, dump>>
  /\ UNCHANGED buildVars

\* The read of the body in Decode(v) ends (with the body, or with the
\* context's error): Do returns what Decode returned.
FinishDecode ==
  /\ pc = "decoding"
  /\ avail \/ ctxDone
  /\ LET r == [resp EXCEPT !.consumed = IF avail THEN BodyLen(resp.Body) ELSE 0]
         a == DoAfterCheck(checkErr, v, dest, r, avail)
     IN /\ doErr' = a.err
        /\ dest' = a.dest
        /\ decoded' = a.decoded
        /\ resp' = DeferredClose(r, a.err)
  /\ pc' = "returned"
  /\ UNCHANGED <<ctxDone, cancelPhase, v, destBefore, avail, dump, checkErr>>
  /\ UNCHANGED buildVars

Next ==
  \/ \E dst \in {"nil", "ptr"}, done \in BOOLEAN : DoCall(dst, done)
  \/ Cancel
  \/ TransportFail
  \/ \E s \in StatusCodes, b \in RespBodies, arrived \in BOOLEAN :
       TransportRespond(s, b, arrived)
  \/ BodyArrives
  \/ FinishCheck
  \/ FinishDecode

\* Calls of Client.Do on a built request, against every response.
Init == InitDo /\ InitDoIdle

Spec == Init /\ [][Next]_vars

\* ---------------------------------------------------------- claims on Spec
\* The code lists handed to IsError.
CodeLists == StringsUpTo(0..MaxCode, MaxCodes)

\* C2: once Do has returned on a response, the error CheckResponse returned
\* is nil exactly when the status is in [200,300); and for that error, as for
\* the error Do returned, IsError is true for a list of codes exactly when the
\* error is an ErrorData one of whose entries has a code of the list.
C2_CheckAndIsError ==
  pc = "returned" =>
    /\ resp.present =>
         (checkErr.kind = "nil" <=> (200 <= resp.StatusCode /\ resp.StatusCode < 300))
    /\ \A e \in {checkErr, doErr}, codes \in CodeLists :
         IsError(e, codes) <=>
           /\ e.kind = "ErrorData"
           /\ \E i \in 1..Len(e.Errors), j \in 1..Len(codes) :
                e.Errors[i].ErrorID = codes[j]

\* Do returned the ErrorData of a 404 response whose second entry has code 2
\* and whose first entry has another code: IsError is true for code 2.
C2_Witness ==
  /\ pc = "returned"
  /\ resp.StatusCode = 404
  /\ checkErr.kind = "ErrorData"
  /\ Len(checkErr.Errors) = 2
  /\ checkErr.Errors[1].ErrorID = 1
  /\ checkErr.Errors[2].ErrorID = 2
  /\ IsError(checkErr, <<0, 2>>)
  /\ ~IsError(checkErr, <<0>>)

\* C3: once Do has returned on a response whose status is outside [200,300)
\* and whose body is empty, not JSON or JSON cut short, CheckResponse has
\* returned an ErrorData with no entries, the status code of the response and
\* the request dump, and Do has returned that error: no decode error is
\* returned.
C3_MalformedErrorBody ==
  (/\ pc = "returned"
   /\ resp.present
   /\ ~(200 <= resp.StatusCode /\ resp.StatusCode < 300)
   /\ resp.Body.syntax \in {"empty", "invalid", "truncated"})
  => /\ checkErr.kind = "ErrorData"
     /\ checkErr.Errors = <<>>
     /\ checkErr.status = resp.StatusCode
     /\ checkErr.dump = DumpRequest(req)
     /\ doErr = checkErr

\* Do returned on a 500 response whose body is not JSON and was read.
C3_Witness ==
  /\ pc = "returned"
  /\ resp.present
  /\ resp.StatusCode = 500
  /\ resp.Body.syntax = "invalid"
  /\ resp.consumed = 1
  /\ doErr.kind = "ErrorData"
  /\ doErr.Errors = <<>>

\* C4: once Do has returned on a response for which CheckResponse returned an
\* error, Do has returned exactly that error, no Decode into the destination
\* was attempted and the destination holds what it held when Do was called.
C4_ErrorLeavesDestination ==
  (pc = "returned" /\ resp.present /\ checkErr.kind # "nil")
  => /\ doErr = checkErr
     /\ ~decoded
     /\ dest = destBefore

\* Do returned the ErrorData of a 404 response whose body is an item that
\* would decode into the (non-nil, still unset) destination.
C4_Witness ==
  /\ pc = "returned"
  /\ resp.StatusCode = 404
  /\ resp.Body.itemId = "str"
  /\ resp.consumed = 1
  /\ v = "ptr"
  /\ dest.ItemID = "unset"
  /\ doErr.kind = "ErrorData"

\* C5 as stated: when the context was done before Do was called, while the
\* request was being sent or answered, or while the body was still being
\* read, Do returns a transport error or an error that wraps the context's,
\* and the destination holds what it held when Do was called.
C5_Original ==
  (pc = "returned" /\ cancelPhase \in {"before", "sending", "reading"})
  => /\ doErr.kind = "transport" \/ doErr.cause = "canceled"
     /\ dest = destBefore

\* C6 as stated: when Do returns on a 2xx response with a nil destination, it
\* returns nil, has attempted no decode, and the body has been read to its
\* end and closed.
C6_Original ==
  (/\ pc = "returned"
   /\ resp.present
   /\ 200 <= resp.StatusCode /\ resp.StatusCode < 300
   /\ v = "nil")
  => /\ doErr.kind = "nil"
     /\ ~decoded
     /\ resp.consumed = BodyLen(resp.Body)
     /\ resp.closed

\* C7: once Do has returned on a response, the body of that response is
\* closed.
C7_BodyClosed ==
  (pc = "returned" /\ resp.present) => resp.closed

\* Do returned the decode error of a 2xx response whose body is not JSON,
\* and the body is closed.
C7_Witness ==
  /\ pc = "returned"
  /\ resp.present
  /\ resp.StatusCode = 200
  /\ doErr.kind = "decode"
  /\ doErr.cause = "syntax"
  /\ resp.closed
====
